---- MODULE Spec2Model ----
(***************************************************************************)
(* Model of the reverse-engineering agent: the four-node LangGraph loop    *)
(* (planning -> executor -> observation -> critic, with the conditional    *)
(* edge back to executor), the tool dispatch of the executor, and the      *)
(* retrying oracle call layer invoke_llm_with_retry.                       *)
(*                                                                         *)
(* Spec     the orchestrator loop on the AgentState record                 *)
(* SpecLLM  one call of invoke_llm_with_retry, attempt by attempt          *)
(* SpecRun  one call of run_binary_tool, statement by statement            *)
(* SpecPlan one planner phase on the states the planner can be handed     *)
(* SpecObs  TargetInfo under the observation phases of a run               *)
(* SpecMain a run of main from its command line                            *)
(***************************************************************************)
EXTENDS Integers, Sequences, FiniteSets, TLC

(***************************************************************************)
(* Bounds of the model                                                     *)
(***************************************************************************)
\* number of times the back-edge critic -> executor may be taken
MaxCycles == 1
\* longest plan the critic is allowed to grow
MaxPlan == 3
\* longest list of steps in one oracle response
MaxResp == 2
\* number of chunks of output the child of run_binary_tool may write
MaxOut == 2
\* longest plan in a state handed to the planner
MaxHeld == 2

(***************************************************************************)
(* Program constants                                                       *)
(***************************************************************************)
\* default of the max_retries parameter of invoke_llm_with_retry
DefaultMaxRetries == 3
\* wait of the Groq rate-limit branch and of the generic branch, seconds
DefaultWait == 2
\* base of the Gemini rate-limit wait, seconds
GeminiBase == 10
\* largest stdin_data run_binary_tool accepts
StdinCap == 4096

\* Python's None, for the text-valued fields
None == "None"

VARIABLES
    \* ---- orchestrator (AgentState and the position in the graph)
    active,         \* the nodes the graph has scheduled to run
    pc,             \* node about to run: planning, executor, observation, critic,
                    \* route (the conditional edge), END, crashed; after main
                    \* took over again: exit 0, exit 1; before the loop: main,
                    \* and exit 2 of the argument parser
    entry,          \* who built the initial state: "main" or "tui"
    llm_ok,         \* whether get_llm can construct the provider client
    target,         \* TargetInfo
    hypotheses,     \* list of hypothesis ids
    observations,   \* Observations: strings, code, runtime
    artifacts,      \* Artifacts: decoded_strings, extracted_keys, decrypted_payloads, notes
    current_plan,   \* list of PlanStep
    execution_log,  \* list of ExecutionLogEntry
    confidence,     \* Confidence
    termination,    \* Termination
    cycles,         \* back-edges taken so far
    planned,        \* which way the planner phase went (history)
    dispatch,       \* what the last executor phase did (history)
    observed,       \* what the last observation phase did (history)
    critique,       \* what the last critic phase was given (history)
    report,         \* the Status line of main's summary, "none" while not printed
    argv,           \* the command line main was started with
    \* ---- oracle call layer (one call of invoke_llm_with_retry)
    l_pc,           \* idle, loop, returned, raised
    l_provider,     \* the global _provider
    l_attempt,      \* the local attempt
    l_calls,        \* number of chain.invoke calls made
    l_wait,         \* argument of the last time.sleep, 0 if none
    l_trace,        \* the exceptions chain.invoke raised, in order
    l_result,       \* what the caller got: None while running, payload, null, exception
    \* ---- process adapter (one call of run_binary_tool)
    r_pc,           \* idle, validate, prepare, spawn, send, wait, returned
    r_in,           \* the arguments and the file system: path, file, stdin, spawn_ok
    r_data,         \* the local stdin_data
    r_child,        \* the child process: none, alive, closed, killed
    r_sent,         \* the text child.send wrote, NoStdin if it was not called
    r_out,          \* chunks of output the child has written (child.before)
    r_result        \* the outcome and the chunks of output in the returned text

orchVars == <<active, pc, entry, llm_ok, target, hypotheses, observations, artifacts,
              current_plan, execution_log, confidence, termination, cycles, planned,
              dispatch, observed, critique, report, argv>>
llmVars == <<l_pc, l_provider, l_attempt, l_calls, l_wait, l_trace, l_result>>
runVars == <<r_pc, r_in, r_data, r_child, r_sent, r_out, r_result>>
vars == <<orchVars, llmVars, runVars>>

(***************************************************************************)
(* Oracle call layer: core/llm.py                                          *)
(***************************************************************************)
Providers == {"groq", "gemini"}

\* An exception raised by chain.invoke, by what the handler inspects:
\*   rate_limit_type  "RateLimitError" occurs in str(type(e))
\*   exhausted        "ResourceExhausted" occurs in str(type(e)) or "429" in str(e)
\*   retry_after      the retry-after header of e.response, 0 when absent
Exceptions ==
    [rate_limit_type : BOOLEAN, exhausted : BOOLEAN, retry_after : {0, 7}]

\* The oracle failures the model draws: the header only matters with a response
OracleFailures ==
    {e \in Exceptions : e.retry_after # 0 => e.rate_limit_type}

IsGroqRateLimit(e, provider) == e.rate_limit_type /\ provider = "groq"
IsGeminiRateLimit(e) == e.exhausted
IsTransient(e, provider) == ~IsGroqRateLimit(e, provider) /\ ~IsGeminiRateLimit(e)

LLMInit ==
    /\ l_pc = "idle"
    /\ l_provider \in Providers
    /\ l_attempt = 0
    /\ l_calls = 0
    /\ l_wait = 0
    /\ l_trace = <<>>
    /\ l_result = None

\* invoke_llm_with_retry is entered: attempt = 0
LLMEnter ==
    /\ l_pc = "idle"
    /\ l_pc' = "loop"
    /\ l_attempt' = 0
    /\ UNCHANGED <<l_provider, l_calls, l_wait, l_trace, l_result>>
    /\ UNCHANGED <<orchVars, runVars>>

\* one iteration whose chain.invoke returns
LLMAttemptReturns ==
    /\ l_pc = "loop"
    /\ l_attempt < DefaultMaxRetries
    /\ l_calls' = l_calls + 1
    /\ l_pc' = "returned"
    /\ l_result' = "payload"
    /\ UNCHANGED <<l_provider, l_attempt, l_wait, l_trace>>
    /\ UNCHANGED <<orchVars, runVars>>

\* one iteration whose chain.invoke raises e: the except block
LLMAttemptRaises ==
    /\ l_pc = "loop"
    /\ l_attempt < DefaultMaxRetries
    /\ \E e \in OracleFailures :
        /\ l_calls' = l_calls + 1
        /\ l_trace' = Append(l_trace, e)
        /\ l_attempt' = l_attempt + 1
        /\ IF IsGroqRateLimit(e, l_provider)
           THEN /\ l_wait' = (IF e.retry_after # 0 THEN e.retry_after ELSE DefaultWait)
                /\ UNCHANGED <<l_pc, l_result>>
           ELSE IF IsGeminiRateLimit(e)
           THEN /\ l_wait' = GeminiBase * l_attempt'
                /\ UNCHANGED <<l_pc, l_result>>
           ELSE IF l_attempt' >= DefaultMaxRetries
           THEN /\ l_pc' = "raised"
                /\ l_result' = "exception"
                /\ UNCHANGED l_wait
           ELSE /\ l_wait' = DefaultWait
                /\ UNCHANGED <<l_pc, l_result>>
    /\ UNCHANGED l_provider
    /\ UNCHANGED <<orchVars, runVars>>

\* the while condition fails: the function falls off its end and returns None
LLMLoopEnds ==
    /\ l_pc = "loop"
    /\ ~(l_attempt < DefaultMaxRetries)
    /\ l_pc' = "returned"
    /\ l_result' = "null"
    /\ UNCHANGED <<l_provider, l_attempt, l_calls, l_wait, l_trace>>
    /\ UNCHANGED <<orchVars, runVars>>

(***************************************************************************)
(* Plan state machine: the plan helpers the agents inline                  *)
(***************************************************************************)
\* result_ref: <<>> is None, <<k>> is the string "log_k"
NoRef == <<>>
LogRef(k) == <<k>>

PlanStep(id, action, tool) ==
    [step_id |-> id, action |-> action, tool |-> tool,
     status |-> "pending", result_ref |-> NoRef]

RECURSIVE FirstPendingFrom(_, _)
\* next(step for step in plan if status == "pending"), scanning from position i
FirstPendingFrom(plan, i) ==
    IF i > Len(plan) THEN 0
    ELSE IF plan[i].status = "pending" THEN i
    ELSE FirstPendingFrom(plan, i + 1)

\* next_pending going back to the first step when no step is pending
next_pending_or_first(plan) ==
    IF FirstPendingFrom(plan, 1) = 0 /\ plan # <<>> THEN 1 ELSE FirstPendingFrom(plan, 1)

\* next_pending taking the last pending step instead of the first
next_pending_last(plan) ==
    IF \E i \in DOMAIN plan : plan[i].status = "pending"
    THEN CHOOSE i \in DOMAIN plan :
            plan[i].status = "pending"
            /\ \A j \in DOMAIN plan : plan[j].status = "pending" => j <= i
    ELSE 0

\* next_pending taking the first step of the plan whatever its status
next_pending_any_status(plan) == IF plan = <<>> THEN 0 ELSE 1

\* the position of the step the executor selects, 0 for None
next_pending(plan) == FirstPendingFrom(plan, 1)

RECURSIVE MaxId(_, _)
MaxId(plan, i) ==
    IF i > Len(plan) THEN plan[1].step_id
    ELSE LET m == MaxId(plan, i + 1) IN
         IF plan[i].step_id > m THEN plan[i].step_id ELSE m

\* current_max_id taking the id of the last step instead of the largest
current_max_id_last(plan) == IF plan = <<>> THEN 0 ELSE plan[Len(plan)].step_id

\* max([s["step_id"] for s in plan]) if plan else 0
current_max_id(plan) == IF plan = <<>> THEN 0 ELSE MaxId(plan, 1)

(***************************************************************************)
(* Tools: tools/static, tools/dynamic                                      *)
(***************************************************************************)
\* tool_map with the web search tool of agents/toolnode.py registered as well
tool_map_with_web_search == {"file", "strings", "hexdump", "gdb", "run_binary", "web_search"}

\* keys of the executor's tool_map
tool_map == {"file", "strings", "hexdump", "gdb", "run_binary"}
TranslatedTools == {"gdb", "run_binary"}

\* binary paths: none given, or the absolute path main computes
Paths == {"", "/abs/target"}
IsAbs(path) == path = "/abs/target"

\* file_tool, strings_tool, hexdump_tool: every path returns text
StaticEnvs == {"ok", "nonzero"}
static_tool(env) ==
    IF env = "ok" THEN "stdout" ELSE "Error: stderr"

\* gdb_tool: every path returns text
GdbEnvs == {"ok", "timeout"}
gdb_tool(env) ==
    IF env = "ok" THEN "stdout" ELSE "Error: GDB execution timed out"

\* stdin_data: None, or a text by what the adapter looks at: len() of the
\* str (characters), the bytes of its utf-8 encoding, and whether it ends
\* with "\n"
NoStdin == [present |-> FALSE, len |-> 0, bytes |-> 0, nl |-> FALSE]
\* a text of one-byte characters
Stdin(len, nl) == [present |-> TRUE, len |-> len, bytes |-> len, nl |-> nl]
\* a text one of whose characters takes two bytes
StdinWide(len, nl) == [present |-> TRUE, len |-> len, bytes |-> len + 1, nl |-> nl]

\* line 31, "if stdin_data:": None and "" are both false
truthy(stdin) == stdin.present /\ stdin.len > 0

\* line 32: len(stdin_data) > 4096
too_large(stdin) == stdin.len > StdinCap

\* lines 36-37: "\n" is appended unless the text ends with it
newline_discipline(stdin) ==
    IF stdin.nl THEN stdin
    ELSE [stdin EXCEPT !.len = @ + 1, !.bytes = @ + 1, !.nl = TRUE]

\* what binary_path names in the file system
FileKinds == {"missing", "directory", "not executable", "executable"}
isfile(file) == file \in {"not executable", "executable"}
access_X_OK(file) == file \in {"directory", "executable"}

\* what the executor's call of run_binary_tool meets: main has found the path
\* to exist; the file, the spawn and the child behave one way or the other
RunEnvs ==
    [file : {"not executable", "executable"}, spawn_ok : BOOLEAN,
     child : {"eof", "timeout"}]

\* run_binary_tool as the executor sees it: the outcome, the text returned,
\* whether a child was spawned, the text sent to it and whether the child was
\* closed or killed
run_binary_tool(path, stdin, env) ==
    LET sent == IF truthy(stdin) THEN newline_discipline(stdin) ELSE NoStdin
    IN
    IF ~IsAbs(path)
    THEN [kind |-> "InvalidTarget", text |-> "Error: binary_path must be an absolute path",
          spawned |-> FALSE, sent |-> NoStdin, reaped |-> FALSE]
    ELSE IF ~isfile(env.file) \/ ~access_X_OK(env.file)
    THEN [kind |-> "InvalidTarget", text |-> "Error: not an executable file",
          spawned |-> FALSE, sent |-> NoStdin, reaped |-> FALSE]
    ELSE IF truthy(stdin) /\ too_large(stdin)
    THEN [kind |-> "PayloadTooLarge", text |-> "Error: stdin_data too large",
          spawned |-> FALSE, sent |-> NoStdin, reaped |-> FALSE]
    ELSE IF ~env.spawn_ok
    THEN [kind |-> "SpawnFailure", text |-> "Unexpected error running binary with pexpect",
          spawned |-> FALSE, sent |-> NoStdin, reaped |-> FALSE]
    ELSE IF env.child = "timeout"
    THEN [kind |-> "Timeout", text |-> "Error: Binary execution timed out",
          spawned |-> TRUE, sent |-> sent, reaped |-> TRUE]
    ELSE [kind |-> "Exited", text |-> "Exit Code report",
          spawned |-> TRUE, sent |-> sent, reaped |-> TRUE]

\* the outcomes of the adapter that are failures of the tool
RunFailures == {"InvalidTarget", "PayloadTooLarge", "Timeout", "SpawnFailure"}

(***************************************************************************)
(* run_binary_tool, statement by statement: tools/dynamic/run_binary.py    *)
(***************************************************************************)
\* the paths the adapter is called with
RunPaths == {"rel/target", "/abs/target"}

\* the texts the adapter is called with: "", short ones, and the ones
\* around the cap; a text that ends with "\n" has a character, and a two-byte
\* character is not the "\n"
PayloadLens == {0, 1, 6, 7, StdinCap - 1, StdinCap, StdinCap + 1}
Payloads ==
    {NoStdin}
    \cup {Stdin(n, nl) : n \in {m \in PayloadLens : m >= 1}, nl \in BOOLEAN}
    \cup {Stdin(0, FALSE)}
    \cup {StdinWide(n, FALSE) : n \in {m \in PayloadLens : m >= 1}}
    \cup {StdinWide(n, TRUE) : n \in {m \in PayloadLens : m >= 2}}

RunInputs ==
    [path : RunPaths, file : FileKinds, stdin : Payloads, spawn_ok : BOOLEAN]

NoCall == [path |-> "", file |-> "missing", stdin |-> NoStdin, spawn_ok |-> FALSE]
NoResult == [kind |-> "none", text |-> None, output |-> 0]

\* no call of the adapter is under way
RunInit ==
    /\ r_pc = "idle"
    /\ r_in = NoCall
    /\ r_data = NoStdin
    /\ r_child = "none"
    /\ r_sent = NoStdin
    /\ r_out = 0
    /\ r_result = NoResult

\* a return statement: the text, and the chunks of child output it carries
Return(kind, text, output) ==
    /\ r_pc' = "returned"
    /\ r_result' = [kind |-> kind, text |-> text, output |-> output]

\* the call: the parameters are bound
RunEnter ==
    /\ r_pc = "idle"
    /\ \E in \in RunInputs :
          /\ r_in' = in
          /\ r_data' = in.stdin
    /\ r_pc' = "validate"
    /\ UNCHANGED <<r_child, r_sent, r_out, r_result, orchVars, llmVars>>

\* RunValidate without the test of the execute permission
RunValidate_NoExecCheck ==
    /\ r_pc = "validate"
    /\ IF ~IsAbs(r_in.path)
       THEN Return("InvalidTarget", "Error: binary_path must be an absolute path", 0)
       ELSE IF ~isfile(r_in.file)
       THEN Return("InvalidTarget", "Error: not an executable file", 0)
       ELSE r_pc' = "prepare" /\ UNCHANGED r_result
    /\ UNCHANGED <<r_in, r_data, r_child, r_sent, r_out, orchVars, llmVars>>

\* lines 24-28: the path safety check
RunValidate ==
    /\ r_pc = "validate"
    /\ IF ~IsAbs(r_in.path)
       THEN Return("InvalidTarget", "Error: binary_path must be an absolute path", 0)
       ELSE IF ~isfile(r_in.file) \/ ~access_X_OK(r_in.file)
       THEN Return("InvalidTarget", "Error: not an executable file", 0)
       ELSE r_pc' = "prepare" /\ UNCHANGED r_result
    /\ UNCHANGED <<r_in, r_data, r_child, r_sent, r_out, orchVars, llmVars>>

\* lines 31-37: the cap, then the newline
RunPrepare ==
    /\ r_pc = "prepare"
    /\ IF truthy(r_data) /\ too_large(r_data)
       THEN /\ Return("PayloadTooLarge", "Error: stdin_data too large", 0)
            /\ UNCHANGED r_data
       ELSE /\ r_data' = (IF truthy(r_data) THEN newline_discipline(r_data) ELSE r_data)
            /\ r_pc' = "spawn"
            /\ UNCHANGED r_result
    /\ UNCHANGED <<r_in, r_child, r_sent, r_out, orchVars, llmVars>>

\* lines 40-44: pexpect.spawn starts the child or raises
RunSpawn ==
    /\ r_pc = "spawn"
    /\ IF r_in.spawn_ok
       THEN /\ r_child' = "alive"
            /\ r_pc' = "send"
            /\ UNCHANGED r_result
       ELSE /\ Return("SpawnFailure", "Unexpected error running binary with pexpect", 0)
            /\ UNCHANGED r_child
    /\ UNCHANGED <<r_in, r_data, r_sent, r_out, orchVars, llmVars>>

\* lines 47-51: child.send when there is something to send
RunSend ==
    /\ r_pc = "send"
    /\ r_sent' = (IF truthy(r_data) THEN r_data ELSE NoStdin)
    /\ r_pc' = "wait"
    /\ UNCHANGED <<r_in, r_data, r_child, r_out, r_result, orchVars, llmVars>>

\* child.send raises: the outer except returns, the child is left as it is
RunSendRaises ==
    /\ r_pc = "send"
    /\ truthy(r_data)
    /\ Return("UnexpectedError", "Unexpected error running binary with pexpect", 0)
    /\ UNCHANGED <<r_in, r_data, r_child, r_sent, r_out, orchVars, llmVars>>

\* the child, while it lives, writes to its terminal
ChildWrites ==
    /\ r_child = "alive"
    /\ r_out < MaxOut
    /\ r_out' = r_out + 1
    /\ UNCHANGED <<r_pc, r_in, r_data, r_child, r_sent, r_result, orchVars, llmVars>>

\* lines 54-56 and 64-72: end of stream, close, the report
RunEOF ==
    /\ r_pc = "wait"
    /\ r_child' = "closed"
    /\ Return("Exited", "Exit Code report", r_out)
    /\ UNCHANGED <<r_in, r_data, r_sent, r_out, orchVars, llmVars>>

\* RunTimeout abandoning the child and its output
RunTimeout_Abandon ==
    /\ r_pc = "wait"
    /\ Return("Timeout", "Error: Binary execution timed out", 0)
    /\ UNCHANGED <<r_in, r_data, r_child, r_sent, r_out, orchVars, llmVars>>

\* lines 57-61: pexpect.TIMEOUT, the output so far, terminate(force=True)
RunTimeout ==
    /\ r_pc = "wait"
    /\ r_child' = "killed"
    /\ Return("Timeout", "Error: Binary execution timed out", r_out)
    /\ UNCHANGED <<r_in, r_data, r_sent, r_out, orchVars, llmVars>>

\* child.expect raises something else than TIMEOUT: the outer except returns
RunWaitRaises ==
    /\ r_pc = "wait"
    /\ Return("UnexpectedError", "Unexpected error running binary with pexpect", 0)
    /\ UNCHANGED <<r_in, r_data, r_child, r_sent, r_out, orchVars, llmVars>>

(***************************************************************************)
(* The oracle as the agents see it                                         *)
(***************************************************************************)
\* what invoke_llm_with_retry hands to its caller: a parsed payload, None
\* (the loop ran out on a rate limit) or the exception of the last attempt
InvokeFailures == {"null", "exception"}

\* tool names the oracle writes, and the keywords the planner looks for in them
Keywords(raw) ==
    IF raw = "file" THEN {"file"}
    ELSE IF raw = "strings" THEN {"strings"}
    ELSE IF raw = "hexdump" THEN {"hexdump"}
    ELSE IF raw = "run_binary" THEN {"run"}
    ELSE IF raw = "gdb" THEN {"gdb"}
    ELSE IF raw = "gdb run" THEN {"gdb", "run"}
    ELSE {}

\* the planner's canonical tool name
Canonical(raw) ==
    IF "strings" \in Keywords(raw) THEN "strings"
    ELSE IF "file" \in Keywords(raw) THEN "file"
    ELSE IF "hexdump" \in Keywords(raw) THEN "hexdump"
    ELSE IF "run" \in Keywords(raw) THEN "run_binary"
    ELSE IF "gdb" \in Keywords(raw) THEN "gdb"
    ELSE raw

\* one entry of the "plan" list of the planner's response: "step" may be absent
PlanItems ==
    [has_step : BOOLEAN, step : {0}, tool : {"file", "run_binary", "web_search"}]
\* the entries the model draws: file and run_binary entries without "step",
\* and a web_search entry with "step": 0
PlanItemsDrawn ==
    {it \in PlanItems : it.has_step <=> it.tool = "web_search"}

SeqsUpTo(S, n) == UNION {[1..k -> S] : k \in 0..n}

PlanResponses == SeqsUpTo(PlanItemsDrawn, MaxResp)

\* one entry of the critic's "new_steps": a dict whose "tool" may be absent,
\* or something that is not a dict (bad)
NewStepItems == [bad : BOOLEAN, has_tool : BOOLEAN, tool : {"gdb"}]
NewStepItemsDrawn == {it \in NewStepItems : it.bad => ~it.has_tool}

\* the critic's response; the keys of confidence_update and "satisfied" may be absent
CriticResponses ==
    [has_level : BOOLEAN, level : {50},
     has_questions : BOOLEAN, questions : {<<"q">>},
     has_satisfied : BOOLEAN, satisfied : BOOLEAN,
     new_steps : SeqsUpTo(NewStepItemsDrawn, MaxResp)]
\* the responses the model draws: one that carries all of confidence_update
\* and termination, one that carries neither; entries behind the first bad
\* one are never read, so a bad entry is drawn in the last place only
CriticResponsesDrawn ==
    {r \in CriticResponses :
        /\ ~r.has_satisfied => ~r.satisfied
        /\ r.has_level = r.has_questions
        /\ r.has_level = r.has_satisfied
        /\ \A j \in DOMAIN r.new_steps : r.new_steps[j].bad => j = Len(r.new_steps)}

\* updated_target_info: a key is absent, null, or carries a value
TargetUpdates ==
    { [binary_type |-> "ELF", arch |-> "null", os |-> "absent", stripped |-> "False"] }

\* the observation response: how many entries each list carries, and the updates
ObsResponses ==
    { [strings |-> 1, code |-> 0, runtime |-> 0, decoded_strings |-> 0,
       extracted_keys |-> 0, decrypted_payloads |-> 0, notes |-> 1, updates |-> u]
        : u \in TargetUpdates }

\* the argument translation the executor asks for
Translations ==
    [commands : {"absent", "valid", "invalid"},
     cmd_args : {"absent", "valid", "invalid"},
     stdin_data : {NoStdin, Stdin(6, FALSE), Stdin(StdinCap + 1, FALSE)}]
GdbTranslations ==
    {t \in Translations : t.cmd_args = "absent" /\ t.stdin_data = NoStdin}
RunTranslations ==
    {t \in Translations : t.commands = "absent"
                          /\ (t.cmd_args = "invalid" => t.stdin_data = NoStdin)}

(***************************************************************************)
(* The graph: core/graph.py                                                *)
(***************************************************************************)
Nodes == {"planning", "executor", "observation", "critic"}
entry_point == "planning"

\* the edges with a second edge out of planning
edges_fan_out ==
    {<<"planning", "executor">>, <<"planning", "observation">>,
     <<"executor", "observation">>, <<"observation", "critic">>}

\* add_edge, lines 15-17
edges ==
    {<<"planning", "executor">>, <<"executor", "observation">>,
     <<"observation", "critic">>}

Successors(node) == {e[2] : e \in {d \in edges : d[1] = node}}

\* a node returns: the nodes behind its edges are scheduled, one of them runs
Schedule(node) ==
    /\ active' = (active \ {node}) \cup Successors(node)
    /\ pc' \in Successors(node)

\* a node raises: the run is over
Abort ==
    /\ active' = {}
    /\ pc' = "crashed"

\* the path map sending a should_continue result of 'executor' to planning
path_map_replans(key) == IF key = "executor" THEN "planning" ELSE "END"

\* the path map of add_conditional_edges, lines 27-30
path_map(key) == IF key = "executor" THEN "executor" ELSE "END"

(***************************************************************************)
(* The command line: main.py                                               *)
(***************************************************************************)
\* sys.argv[1:]: each option is absent or carries a value; --path is the empty
\* string, a path to no file or a path to a file; --provider may be a name
\* outside the parser's choices
Argvs ==
    [path : {"absent", "", "missing", "exists"},
     prompt : {"absent", "", "goal"},
     provider : {"absent", "groq", "gemini", "other"}]

\* no argument at all
NoArgv == [path |-> "absent", prompt |-> "absent", provider |-> "absent"]

\* the command line of a run that got to its loop
AcceptedArgv == [path |-> "exists", prompt |-> "goal", provider |-> "absent"]

(***************************************************************************)
(* The initial AgentState: main.py, and the state handed to AgentApp       *)
(***************************************************************************)
\* a critique that assessed no confidence: no confidence_update was read
NoAssessment ==
    [has_level |-> FALSE, level |-> 0, has_questions |-> FALSE, questions |-> <<>>]

\* the critic phase: its path, the confidence_update it read, the new_steps it used
NoCritique == [path |-> "none", assessment |-> NoAssessment, new_steps |-> <<>>]

\* the observation phase: skip, crashed, fallback or oracle, the position of
\* the log entry it submitted to the oracle (0 for none), its oracle calls and
\* the updated_target_info it was given
NoUpdates ==
    [binary_type |-> "absent", arch |-> "absent", os |-> "absent", stripped |-> "absent"]

NoObserved == [path |-> "none", entry |-> 0, oracle_calls |-> 0, updates |-> NoUpdates]
Observed(path, k, calls, updates) ==
    observed' = [path |-> path, entry |-> k, oracle_calls |-> calls, updates |-> updates]

\* the planner has not run; afterwards: noop, crashed, fallback, oracle
NoPlanned == [path |-> "none"]

NoDispatch ==
    [selected |-> 0, log_before |-> 0, handler_calls |-> 0, oracle_calls |-> 0,
     outcome |-> "none"]

TargetInfo(path) ==
    [binary_path |-> path, binary_type |-> "Unknown", arch |-> "Unknown",
     os |-> "Unknown", stripped |-> None]

\* states a caller of AgentApp may hand over: no binary path and no plan, or a
\* path and a plan of one pending step
TuiStates ==
    { [path |-> "", plan |-> <<>>],
      [path |-> "/abs/target", plan |-> <<PlanStep(1, "caller", "file")>>],
      [path |-> "/abs/target", plan |-> <<PlanStep(1, "caller", "run_binary")>>] }

Init ==
    /\ active = {entry_point}
    /\ pc = entry_point
    /\ entry \in {"main", "tui"}
    /\ report = "none"
    /\ argv = (IF entry = "main" THEN AcceptedArgv ELSE NoArgv)
    /\ llm_ok \in BOOLEAN
    /\ IF entry = "main"
       THEN /\ target = TargetInfo("/abs/target")
            /\ current_plan = <<>>
       ELSE \E st \in TuiStates :
               /\ target = TargetInfo(st.path)
               /\ current_plan = st.plan
    /\ hypotheses = <<>>
    /\ observations = [strings |-> <<>>, code |-> <<>>, runtime |-> <<>>]
    /\ artifacts = [decoded_strings |-> <<>>, extracted_keys |-> <<>>,
                    decrypted_payloads |-> <<>>, notes |-> <<>>]
    /\ execution_log = <<>>
    /\ confidence = [understanding_level |-> 0, unanswered_questions |-> <<>>]
    /\ termination = [satisfied |-> FALSE, reason |-> None]
    /\ cycles = 0
    /\ planned = NoPlanned
    /\ dispatch = NoDispatch
    /\ observed = NoObserved
    /\ critique = NoCritique
    /\ l_pc = "idle"
    /\ l_provider = "groq"
    /\ l_attempt = 0
    /\ l_calls = 0
    /\ l_wait = 0
    /\ l_trace = <<>>
    /\ l_result = None
    /\ RunInit

(***************************************************************************)
(* planning: agents/planner_agent.py                                       *)
(***************************************************************************)
\* the guard of the planner: a plan exists and some step is not completed
PlanIsActive(plan) ==
    plan # <<>> /\ \E i \in DOMAIN plan : plan[i].status # "completed"

\* the plan built from the oracle's list
NewPlan(llm_plan) ==
    [i \in DOMAIN llm_plan |->
        PlanStep(IF llm_plan[i].has_step THEN llm_plan[i].step ELSE i,
                 "oracle", Canonical(llm_plan[i].tool))]

\* the fallback plan with a second manual step
ManualPlan_TwoSteps ==
    <<PlanStep(1, "Manual inspection", "file"), PlanStep(2, "Manual inspection", "file")>>

\* lines 104-106: the fallback plan
ManualPlan == <<PlanStep(1, "Manual inspection", "file")>>

planner_agent ==
    /\ pc = "planning"
    /\ \/ /\ PlanIsActive(current_plan)
          /\ planned' = [path |-> "noop"]
          /\ Schedule("planning")
          /\ UNCHANGED <<current_plan, hypotheses>>
       \/ /\ ~PlanIsActive(current_plan)
          /\ ~llm_ok
          /\ planned' = [path |-> "crashed"]
          /\ Abort
          /\ UNCHANGED <<current_plan, hypotheses>>
       \/ /\ ~PlanIsActive(current_plan)
          /\ llm_ok
          /\ \E failure \in InvokeFailures :
                current_plan' = (IF current_plan = <<>> THEN ManualPlan ELSE current_plan)
          /\ planned' = [path |-> "fallback"]
          /\ Schedule("planning")
          /\ UNCHANGED hypotheses
       \/ /\ ~PlanIsActive(current_plan)
          /\ llm_ok
          /\ \E llm_plan \in PlanResponses :
                current_plan' = NewPlan(llm_plan)
          /\ hypotheses' = (IF hypotheses = <<>> THEN <<"h1">> ELSE hypotheses)
          /\ planned' = [path |-> "oracle"]
          /\ Schedule("planning")
    /\ UNCHANGED <<argv, report, entry, llm_ok, target, observations, artifacts, execution_log,
                   confidence, termination, cycles, dispatch, observed, critique,
                   llmVars, runVars>>

(***************************************************************************)
(* executor: agents/executor_agent.py                                      *)
(***************************************************************************)
LogEntry(step, input, output, error) ==
    [step_id |-> step.step_id, tool |-> step.tool, input |-> input,
     output |-> output, error |-> error]

\* Record with the status update lost when the tool reported an error
Record_StatusLostOnError(i, input, output, error) ==
    /\ execution_log' = Append(execution_log, LogEntry(current_plan[i], input, output, error))
    /\ current_plan' =
          [current_plan EXCEPT
              ![i].status = IF error # None THEN "pending" ELSE "completed",
              ![i].result_ref = LogRef(Len(execution_log') - 1)]

\* Record setting the status without appending the entry
Record_NoEntry(i, input, output, error) ==
    /\ execution_log' = execution_log
    /\ current_plan' =
          [current_plan EXCEPT
              ![i].status = IF error # None THEN "failed" ELSE "completed",
              ![i].result_ref = LogRef(Len(execution_log))]

\* Record setting the status of every step that is still pending
Record_EveryPending(i, input, output, error) ==
    /\ execution_log' = Append(execution_log, LogEntry(current_plan[i], input, output, error))
    /\ current_plan' =
          [j \in DOMAIN current_plan |->
              IF current_plan[j].status = "pending"
              THEN [current_plan[j] EXCEPT
                       !.status = IF error # None THEN "failed" ELSE "completed",
                       !.result_ref = LogRef(Len(execution_log))]
              ELSE current_plan[j]]

\* Record appending the entry of the step twice
Record_Twice(i, input, output, error) ==
    /\ execution_log' =
          Append(Append(execution_log, LogEntry(current_plan[i], input, output, error)),
                 LogEntry(current_plan[i], input, output, error))
    /\ current_plan' =
          [current_plan EXCEPT
              ![i].status = IF error # None THEN "failed" ELSE "completed",
              ![i].result_ref = LogRef(Len(execution_log))]

\* lines 124-144: append the entry, set the status, set result_ref
Record(i, input, output, error) ==
    /\ execution_log' = Append(execution_log, LogEntry(current_plan[i], input, output, error))
    /\ current_plan' =
          [current_plan EXCEPT
              ![i].status = IF error # None THEN "failed" ELSE "completed",
              ![i].result_ref = LogRef(Len(execution_log') - 1)]

\* lines 25-37: no binary path
RecordNoBinary(i) ==
    /\ execution_log' =
          Append(execution_log,
                 LogEntry(current_plan[i], {}, None, "Error: No binary path provided"))
    /\ current_plan' = [current_plan EXCEPT ![i].status = "failed"]

Dispatched(i, handler_calls, oracle_calls, outcome) ==
    dispatch' = [selected |-> i, log_before |-> Len(execution_log),
                 handler_calls |-> handler_calls, oracle_calls |-> oracle_calls,
                 outcome |-> outcome]

executor_agent ==
    /\ pc = "executor"
    /\ Schedule("executor")
    /\ LET i == next_pending(current_plan)
           tool_name == current_plan[i].tool
           binary_path == target.binary_path
           path_only == {"binary_path"}
       IN
       \/ /\ i = 0
          /\ dispatch' = [NoDispatch EXCEPT !.log_before = Len(execution_log)]
          /\ UNCHANGED <<current_plan, execution_log>>
       \/ /\ i # 0
          /\ binary_path = ""
          /\ RecordNoBinary(i)
          /\ Dispatched(i, 0, 0, "no binary")
       \/ /\ i # 0
          /\ binary_path # ""
          /\ tool_name \notin tool_map
          /\ Record(i, path_only, None, "Unsupported tool")
          /\ Dispatched(i, 0, 0, "unsupported")
       \/ /\ i # 0
          /\ binary_path # ""
          /\ tool_name \in tool_map \ TranslatedTools
          /\ \E env \in StaticEnvs :
                /\ Record(i, path_only, static_tool(env), None)
                /\ Dispatched(i, 1, 0, env)
       \/ /\ i # 0
          /\ binary_path # ""
          /\ tool_name \in TranslatedTools
          /\ ~llm_ok
          /\ Record(i, path_only, None, "Tool execution failed")
          /\ Dispatched(i, 0, 0, "no llm")
       \/ /\ i # 0
          /\ binary_path # ""
          /\ tool_name \in TranslatedTools
          /\ llm_ok
          /\ \E failure \in InvokeFailures :
                /\ Record(i, path_only, None, "Tool execution failed")
                /\ Dispatched(i, 0, 1, "no translation")
       \/ /\ i # 0
          /\ binary_path # ""
          /\ tool_name = "gdb"
          /\ llm_ok
          /\ \E t \in GdbTranslations, env \in GdbEnvs :
                IF t.commands = "invalid"
                THEN /\ Record(i, {"binary_path", "commands"}, None, "Tool execution failed")
                     /\ Dispatched(i, 0, 1, "invalid arguments")
                ELSE /\ Record(i, {"binary_path", "commands"}, gdb_tool(env), None)
                     /\ Dispatched(i, 1, 1, env)
       \/ /\ i # 0
          /\ binary_path # ""
          /\ tool_name = "run_binary"
          /\ llm_ok
          /\ \E t \in RunTranslations, env \in RunEnvs :
                LET input == {"binary_path", "cmd_args", "stdin_data"}
                    result == run_binary_tool(binary_path, t.stdin_data, env)
                IN
                IF t.cmd_args = "invalid"
                THEN /\ Record(i, input, None, "Tool execution failed")
                     /\ Dispatched(i, 0, 1, "invalid arguments")
                ELSE /\ Record(i, input, result.text, None)
                     /\ Dispatched(i, 1, 1, result.kind)
    /\ UNCHANGED <<argv, report, entry, planned, observed, llm_ok, target, hypotheses, observations, artifacts,
                   confidence, termination, cycles, critique, llmVars, runVars>>

(***************************************************************************)
(* observation: agents/observations_agent.py                               *)
(***************************************************************************)
\* list.extend with n entries drawn from log entry k
Extend(list, n, k) == list \o [j \in 1..n |-> k]

\* lines 81-83: a key is written when it is present and not null
Enrich(old, update) ==
    IF update \in {"absent", "null"} THEN old ELSE update

HasUpdates(u) ==
    \E key \in {"binary_type", "arch", "os", "stripped"} : u[key] # "absent"

\* lines 75-83: the four keys of updated_target_info are written into target
update_target(info, updates) ==
    IF HasUpdates(updates)
    THEN [info EXCEPT
             !.binary_type = Enrich(@, updates.binary_type),
             !.arch = Enrich(@, updates.arch),
             !.os = Enrich(@, updates.os),
             !.stripped = Enrich(@, updates.stripped)]
    ELSE info

\* has_error finding no entry in error
has_error_never(log_entry) == FALSE

\* line 18: last_entry.get("error")
has_error(log_entry) == log_entry.error # None

\* FallbackNote appending nothing
FallbackNote_Silent(arts) == arts

\* lines 87-90: the note of the fallback
FallbackNote(arts) == [arts EXCEPT !.notes = Append(@, "fallback")]

observation_agent ==
    /\ pc = "observation"
    /\ \/ /\ execution_log = <<>>
          /\ Observed("skip", 0, 0, NoUpdates)
          /\ Schedule("observation")
          /\ UNCHANGED <<observations, artifacts, target>>
       \/ /\ execution_log # <<>>
          /\ has_error(execution_log[Len(execution_log)])
          /\ Observed("skip", 0, 0, NoUpdates)
          /\ Schedule("observation")
          /\ UNCHANGED <<observations, artifacts, target>>
       \/ /\ execution_log # <<>>
          /\ ~has_error(execution_log[Len(execution_log)])
          /\ ~llm_ok
          /\ Observed("crashed", 0, 0, NoUpdates)
          /\ Abort
          /\ UNCHANGED <<observations, artifacts, target>>
       \/ /\ execution_log # <<>>
          /\ ~has_error(execution_log[Len(execution_log)])
          /\ llm_ok
          /\ \E failure \in InvokeFailures :
                artifacts' = FallbackNote(artifacts)
          /\ Observed("fallback", Len(execution_log), 1, NoUpdates)
          /\ Schedule("observation")
          /\ UNCHANGED <<observations, target>>
       \/ /\ execution_log # <<>>
          /\ ~has_error(execution_log[Len(execution_log)])
          /\ llm_ok
          /\ \E r \in ObsResponses :
                LET k == Len(execution_log) IN
                /\ observations' =
                      [strings |-> Extend(observations.strings, r.strings, k),
                       code |-> Extend(observations.code, r.code, k),
                       runtime |-> Extend(observations.runtime, r.runtime, k)]
                /\ artifacts' =
                      [decoded_strings |->
                           Extend(artifacts.decoded_strings, r.decoded_strings, k),
                       extracted_keys |->
                           Extend(artifacts.extracted_keys, r.extracted_keys, k),
                       decrypted_payloads |->
                           Extend(artifacts.decrypted_payloads, r.decrypted_payloads, k),
                       notes |-> artifacts.notes \o [j \in 1..r.notes |-> "note"]]
                /\ target' = update_target(target, r.updates)
                /\ Observed("oracle", k, 1, r.updates)
          /\ Schedule("observation")
    /\ UNCHANGED <<argv, report, entry, planned, llm_ok, hypotheses, current_plan, execution_log,
                   confidence, termination, cycles, dispatch, critique, llmVars, runVars>>

(***************************************************************************)
(* critic: agents/critic_agent.py                                          *)
(***************************************************************************)
\* position of the first entry of new_steps that is not a dict, 0 if none
FirstBad(new_steps) ==
    IF \E j \in DOMAIN new_steps : new_steps[j].bad
    THEN CHOOSE j \in DOMAIN new_steps :
            new_steps[j].bad /\ \A m \in 1..(j - 1) : ~new_steps[m].bad
    ELSE 0

\* append_steps putting the new steps in place of the plan
append_steps_replacing(plan, new_steps) ==
    LET bad == FirstBad(new_steps)
        n == IF bad = 0 THEN Len(new_steps) ELSE bad - 1
    IN [j \in 1..n |->
           PlanStep(j, "oracle",
                    IF new_steps[j].has_tool THEN new_steps[j].tool ELSE "unknown")]

\* lines 82-90: the steps appended before the loop ends or step_data.get raises
append_steps(plan, new_steps) ==
    LET bad == FirstBad(new_steps)
        n == IF bad = 0 THEN Len(new_steps) ELSE bad - 1
        base == current_max_id(plan)
    IN plan \o [j \in 1..n |->
                  PlanStep(base + j, "oracle",
                           IF new_steps[j].has_tool THEN new_steps[j].tool ELSE "unknown")]

\* Fallback accepting any terminal step, failed ones included
Fallback_AnyTerminal(plan) ==
    IF plan # <<>> /\ \A i \in DOMAIN plan : plan[i].status # "pending"
    THEN [satisfied |-> TRUE, reason |-> "All planned steps completed (fallback)."]
    ELSE [satisfied |-> FALSE, reason |-> "Plan still in progress (fallback)."]

\* lines 92-100: the fallback rule
Fallback(plan) ==
    IF plan # <<>> /\ \A i \in DOMAIN plan : plan[i].status = "completed"
    THEN [satisfied |-> TRUE, reason |-> "All planned steps completed (fallback)."]
    ELSE [satisfied |-> FALSE, reason |-> "Plan still in progress (fallback)."]

\* line 60: the confidence_update of the response
Assessment(r) ==
    [has_level |-> r.has_level,
     level |-> IF r.has_level THEN r.level ELSE 0,
     has_questions |-> r.has_questions,
     questions |-> IF r.has_questions THEN r.questions ELSE <<>>]

critic_agent ==
    /\ pc = "critic"
    /\ \/ /\ ~llm_ok
          /\ Abort
          /\ UNCHANGED <<confidence, termination, current_plan, critique>>
       \/ /\ llm_ok
          /\ \E failure \in InvokeFailures :
                termination' = Fallback(current_plan)
          /\ critique' = [path |-> "fallback", assessment |-> NoAssessment,
                          new_steps |-> <<>>]
          /\ pc' = "route"
          /\ active' = active \ {"critic"}
          /\ UNCHANGED <<confidence, current_plan>>
       \/ /\ llm_ok
          /\ \E r \in CriticResponsesDrawn :
                LET satisfied == r.has_satisfied /\ r.satisfied
                    replans == ~satisfied /\ r.new_steps # <<>>
                    plan1 == IF replans
                             THEN append_steps(current_plan, r.new_steps)
                             ELSE current_plan
                    raised == replans /\ FirstBad(r.new_steps) # 0
                IN
                /\ Len(current_plan) + Len(r.new_steps) <= MaxPlan
                /\ confidence' =
                      [understanding_level |->
                           IF r.has_level THEN r.level ELSE confidence.understanding_level,
                       unanswered_questions |->
                           IF r.has_questions THEN r.questions ELSE <<>>]
                /\ current_plan' = plan1
                /\ termination' =
                      IF raised THEN Fallback(plan1)
                      ELSE [satisfied |-> satisfied,
                            reason |-> "oracle"]
                /\ critique' = [path |-> IF raised THEN "raised" ELSE "oracle",
                                assessment |-> Assessment(r),
                                new_steps |-> IF replans THEN r.new_steps ELSE <<>>]
          /\ pc' = "route"
          /\ active' = active \ {"critic"}
    /\ UNCHANGED <<argv, report, entry, planned, observed, llm_ok, target, hypotheses, observations, artifacts,
                   execution_log, cycles, dispatch, llmVars, runVars>>

(***************************************************************************)
(* the conditional edge: core/graph.py                                     *)
(***************************************************************************)
should_continue ==
    /\ pc = "route"
    /\ \/ /\ termination.satisfied
          /\ pc' = path_map("END")
          /\ UNCHANGED cycles
       \/ /\ ~termination.satisfied
          /\ cycles < MaxCycles
          /\ pc' = path_map("executor")
          /\ cycles' = cycles + 1
    /\ active' = {pc'} \cap Nodes
    /\ UNCHANGED <<argv, report, entry, planned, observed, llm_ok, target, hypotheses, observations, artifacts,
                   current_plan, execution_log, confidence, termination, dispatch,
                   critique, llmVars, runVars>>

(***************************************************************************)
(* main after graph.invoke: main.py                                        *)
(***************************************************************************)
\* Status saying IN PROGRESS whatever the termination
Status_InProgress(term) == "IN PROGRESS"

\* line 118: the Status line
Status(term) == IF term.satisfied THEN "SUCCESS" ELSE "IN PROGRESS"

\* lines 104-138: graph.invoke returned the final state, the summary is printed
main_summary ==
    /\ pc = "END"
    /\ entry = "main"
    /\ report' = Status(termination)
    /\ pc' = "exit 0"
    /\ UNCHANGED <<argv, active, entry, llm_ok, target, hypotheses, observations, artifacts,
                   current_plan, execution_log, confidence, termination, cycles,
                   planned, dispatch, observed, critique, llmVars, runVars>>

\* lines 140-144: graph.invoke raised, the error is printed and sys.exit(1)
main_except ==
    /\ pc = "crashed"
    /\ entry = "main"
    /\ pc' = "exit 1"
    /\ UNCHANGED <<argv, report, active, entry, llm_ok, target, hypotheses, observations,
                   artifacts, current_plan, execution_log, confidence, termination,
                   cycles, planned, dispatch, observed, critique, llmVars, runVars>>

\* lines 34-62: the arguments are parsed and checked, then the loop is started
main_entry ==
    /\ pc = "main"
    /\ pc' = IF argv = NoArgv THEN "exit 0"
             ELSE IF argv.provider = "other" THEN "exit 2"
             ELSE IF argv.path \in {"absent", ""} \/ argv.prompt \in {"absent", ""}
                  THEN "exit 1"
             ELSE IF argv.path = "missing" THEN "exit 1"
             ELSE entry_point
    /\ active' = {pc'} \cap Nodes
    /\ UNCHANGED <<argv, report, entry, llm_ok, target, hypotheses, observations,
                   artifacts, current_plan, execution_log, confidence, termination,
                   cycles, planned, dispatch, observed, critique, llmVars, runVars>>

Next ==
    \/ planner_agent
    \/ executor_agent
    \/ observation_agent
    \/ critic_agent
    \/ should_continue
    \/ main_summary
    \/ main_except

Spec == Init /\ [][Next]_vars

(***************************************************************************)
(* The oracle call layer on its own                                        *)
(***************************************************************************)
\* main's initial state, with an oracle that can be constructed
OrchInit ==
    /\ active = {entry_point}
    /\ pc = entry_point
    /\ entry = "main"
    /\ report = "none"
    /\ argv = AcceptedArgv
    /\ llm_ok = TRUE
    /\ target = TargetInfo("/abs/target")
    /\ current_plan = <<>>
    /\ hypotheses = <<>>
    /\ observations = [strings |-> <<>>, code |-> <<>>, runtime |-> <<>>]
    /\ artifacts = [decoded_strings |-> <<>>, extracted_keys |-> <<>>,
                    decrypted_payloads |-> <<>>, notes |-> <<>>]
    /\ execution_log = <<>>
    /\ confidence = [understanding_level |-> 0, unanswered_questions |-> <<>>]
    /\ termination = [satisfied |-> FALSE, reason |-> None]
    /\ cycles = 0
    /\ planned = NoPlanned
    /\ dispatch = NoDispatch
    /\ observed = NoObserved
    /\ critique = NoCritique

InitLLM == LLMInit /\ OrchInit /\ RunInit

(***************************************************************************)
(* A run of main from its command line                                     *)
(***************************************************************************)
InitMain ==
    /\ active = {}
    /\ pc = "main"
    /\ entry = "main"
    /\ report = "none"
    /\ argv \in Argvs
    /\ llm_ok \in BOOLEAN
    /\ target = TargetInfo("/abs/target")
    /\ current_plan = <<>>
    /\ hypotheses = <<>>
    /\ observations = [strings |-> <<>>, code |-> <<>>, runtime |-> <<>>]
    /\ artifacts = [decoded_strings |-> <<>>, extracted_keys |-> <<>>,
                    decrypted_payloads |-> <<>>, notes |-> <<>>]
    /\ execution_log = <<>>
    /\ confidence = [understanding_level |-> 0, unanswered_questions |-> <<>>]
    /\ termination = [satisfied |-> FALSE, reason |-> None]
    /\ cycles = 0
    /\ planned = NoPlanned
    /\ dispatch = NoDispatch
    /\ observed = NoObserved
    /\ critique = NoCritique
    /\ LLMInit
    /\ RunInit

NextMain == main_entry \/ Next

SpecMain == InitMain /\ [][NextMain]_vars

\* invoke_llm_with_retry, step by step
NextLLM ==
    \/ LLMEnter
    \/ LLMAttemptReturns
    \/ LLMAttemptRaises
    \/ LLMLoopEnds

SpecLLM == InitLLM /\ [][NextLLM]_vars

(***************************************************************************)
(* The process adapter on its own                                          *)
(***************************************************************************)
InitRun == RunInit /\ OrchInit /\ LLMInit

\* run_binary_tool, statement by statement, and its child
NextRun ==
    \/ RunEnter
    \/ RunValidate
    \/ RunPrepare
    \/ RunSpawn
    \/ RunSend
    \/ RunSendRaises
    \/ ChildWrites
    \/ RunEOF
    \/ RunTimeout
    \/ RunWaitRaises

SpecRun == InitRun /\ [][NextRun]_vars

(***************************************************************************)
(* The planner on the states it can be handed                              *)
(***************************************************************************)
\* the statuses of a plan that is held: the executor takes the first pending
\* step and the critic appends pending ones, so the terminal steps come first
HeldStatuses ==
    {sts \in SeqsUpTo({"pending", "completed", "failed"}, MaxHeld) :
        \A i, j \in DOMAIN sts : (i < j /\ sts[i] = "pending") => sts[j] = "pending"}

\* the plan: a completed step ran the file tool, a failed one named no tool
\* of the tool_map, and the k-th terminal step refers to the k-th log entry
HeldPlan(sts) ==
    [i \in DOMAIN sts |->
        [PlanStep(i, "caller", IF sts[i] = "failed" THEN "unknown" ELSE "file")
            EXCEPT !.status = sts[i],
                   !.result_ref = IF sts[i] = "pending" THEN NoRef ELSE LogRef(i - 1)]]

\* the log behind the plan: one entry for every terminal step
HeldLog(sts) ==
    LET done == {i \in DOMAIN sts : sts[i] # "pending"} IN
    [i \in 1..Cardinality(done) |->
        IF sts[i] = "failed"
        THEN LogEntry(HeldPlan(sts)[i], {"binary_path"}, None, "Unsupported tool")
        ELSE LogEntry(HeldPlan(sts)[i], {"binary_path"}, "stdout", None)]

\* a state with a plan, its log, and the hypothesis of an earlier planner phase
InitPlan ==
    /\ active = {entry_point}
    /\ pc = entry_point
    /\ entry = "tui"
    /\ report = "none"
    /\ argv = NoArgv
    /\ llm_ok \in BOOLEAN
    /\ target = TargetInfo("/abs/target")
    /\ \E sts \in HeldStatuses :
          /\ current_plan = HeldPlan(sts)
          /\ execution_log = HeldLog(sts)
    /\ hypotheses \in {<<>>, <<"h1">>}
    /\ observations = [strings |-> <<>>, code |-> <<>>, runtime |-> <<>>]
    /\ artifacts = [decoded_strings |-> <<>>, extracted_keys |-> <<>>,
                    decrypted_payloads |-> <<>>, notes |-> <<>>]
    /\ confidence = [understanding_level |-> 0, unanswered_questions |-> <<>>]
    /\ termination = [satisfied |-> FALSE, reason |-> None]
    /\ cycles = 0
    /\ planned = NoPlanned
    /\ dispatch = NoDispatch
    /\ observed = NoObserved
    /\ critique = NoCritique
    /\ LLMInit
    /\ RunInit

\* one planner phase
NextPlan == planner_agent

SpecPlan == InitPlan /\ [][NextPlan]_vars

(***************************************************************************)
(* TargetInfo under the observation phases of a run                        *)
(***************************************************************************)
\* updated_target_info: every key is absent, null, the empty string or a value
TargetUpdatesWide ==
    [binary_type : {"absent", "null", "", "ELF"},
     arch : {"absent", "null", "", "x86_64"},
     os : {"absent", "null", "", "linux"},
     stripped : {"absent", "null", "True", "False"}]

\* main's state after a first step ran the file tool: the observation is next
InitObs ==
    /\ active = {"observation"}
    /\ pc = "observation"
    /\ entry = "main"
    /\ report = "none"
    /\ argv = AcceptedArgv
    /\ llm_ok = TRUE
    /\ target = TargetInfo("/abs/target")
    /\ current_plan = HeldPlan(<<"completed">>)
    /\ execution_log = HeldLog(<<"completed">>)
    /\ hypotheses = <<>>
    /\ observations = [strings |-> <<>>, code |-> <<>>, runtime |-> <<>>]
    /\ artifacts = [decoded_strings |-> <<>>, extracted_keys |-> <<>>,
                    decrypted_payloads |-> <<>>, notes |-> <<>>]
    /\ confidence = [understanding_level |-> 0, unanswered_questions |-> <<>>]
    /\ termination = [satisfied |-> FALSE, reason |-> None]
    /\ cycles = 0
    /\ planned = [path |-> "fallback"]
    /\ dispatch = [selected |-> 1, log_before |-> 0, handler_calls |-> 1,
                   oracle_calls |-> 0, outcome |-> "ok"]
    /\ observed = NoObserved
    /\ critique = NoCritique
    /\ LLMInit
    /\ RunInit

\* the observation phase of one cycle after the other, as far as target goes:
\* the oracle answers, and lines 74-83 write its updated_target_info
observe_target ==
    /\ pc = "observation"
    /\ execution_log # <<>>
    /\ ~has_error(execution_log[Len(execution_log)])
    /\ llm_ok
    /\ \E u \in TargetUpdatesWide :
          /\ target' = update_target(target, u)
          /\ Observed("oracle", Len(execution_log), 1, u)
    /\ UNCHANGED <<argv, report, active, pc, entry, planned, llm_ok, hypotheses, observations,
                   artifacts, current_plan, execution_log, confidence, termination,
                   cycles, dispatch, critique, llmVars, runVars>>

NextObs == observe_target

SpecObs == InitObs /\ [][NextObs]_vars

(***************************************************************************)
(* Properties                                                              *)
(***************************************************************************)
Terminal == {"completed", "failed"}
LastEntry == execution_log[Len(execution_log)]
NoPending(plan) == \A i \in DOMAIN plan : plan[i].status # "pending"

\* C1 (log completeness): an executor phase that finds a pending step appends
\* exactly one entry to the execution log, the entry carries the step_id of the
\* first pending step, and that step is completed or failed when the phase
\* returns, whatever branch the dispatch takes.
C1_LogCompleteness ==
    [][(pc = "executor" /\ ~NoPending(current_plan)) =>
        LET i == CHOOSE k \in DOMAIN current_plan :
                    /\ current_plan[k].status = "pending"
                    /\ \A j \in 1..(k - 1) : current_plan[j].status # "pending"
            n == Len(execution_log)
        IN /\ Len(execution_log') = n + 1
           /\ SubSeq(execution_log', 1, n) = execution_log
           /\ execution_log'[n + 1].step_id = current_plan[i].step_id
           /\ current_plan'[i].status \in Terminal]_vars

\* C1 witness: a dispatch whose tool call raised has been logged
C1_Witness ==
    /\ pc = "observation"
    /\ dispatch.selected # 0
    /\ dispatch.outcome = "invalid arguments"
    /\ Len(execution_log) = dispatch.log_before + 1
    /\ current_plan[dispatch.selected].status = "failed"

\* C2 (as claimed): after Critique, when satisfied is true or the plan has no
\* pending step, the loop goes to its end state and not back to the executor.
C2_EndsWhenSatisfiedOrExhausted ==
    [][(pc = "route" /\ (termination.satisfied \/ NoPending(current_plan)))
          => pc' = "END"]_vars

\* C3 (as claimed): when every attempt raised a transient failure and the layer
\* surfaced the failure, the oracle was invoked exactly 1 + 3 times.
C3_FourAttempts ==
    (/\ l_pc = "raised"
     /\ \A k \in DOMAIN l_trace : IsTransient(l_trace[k], l_provider))
    => l_calls = DefaultMaxRetries + 1

\* C4 (as claimed): the layer returns only with a success payload, and raises
\* only once the retry bound is exhausted.
C4_PayloadOrFailure ==
    /\ l_pc = "returned" => l_result = "payload"
    /\ l_pc = "raised" => (l_result = "exception" /\ l_attempt >= DefaultMaxRetries)

\* C5 (fallback termination): when the critic's oracle call failed, satisfied
\* is true exactly when the plan is non-empty and every step is completed.
C5_FallbackTermination ==
    (pc = "route" /\ critique.path = "fallback") =>
        (termination.satisfied <=>
            (/\ current_plan # <<>>
             /\ \A i \in DOMAIN current_plan : current_plan[i].status = "completed"))

\* C5 witness: the fallback found a plan whose steps are all completed
C5_Witness ==
    /\ pc = "route"
    /\ critique.path = "fallback"
    /\ Len(current_plan) >= 2
    /\ termination.satisfied

\* C6 (step id monotonicity): every step the critic appends gets a step_id
\* greater than every step_id before it in the plan (1 for the first step of
\* an empty plan), is pending, and the appended steps follow the order of the
\* oracle's new_steps list.
C6_StepIdMonotonic ==
    [][pc = "critic" =>
        LET n == Len(current_plan)
            m == Len(current_plan') - n
        IN /\ m >= 0
           /\ m <= Len(critique'.new_steps)
           /\ \A k \in 1..m :
                /\ current_plan'[n + k].status = "pending"
                /\ current_plan'[n + k].tool =
                      (IF critique'.new_steps[k].has_tool
                       THEN critique'.new_steps[k].tool ELSE "unknown")
                /\ \A i \in 1..(n + k - 1) :
                      current_plan'[n + k].step_id > current_plan'[i].step_id
           /\ (n = 0 /\ m > 0) => current_plan'[1].step_id = 1]_vars

\* C6 witness: two steps were appended to a plan whose ids are not ascending
C6_Witness ==
    /\ pc = "route"
    /\ Len(critique.new_steps) = 2
    /\ Len(current_plan) = 3
    /\ current_plan[1].step_id = 0
    /\ current_plan[2].status = "pending"
    /\ current_plan[3].status = "pending"

\* C7 (as claimed): every step_id is a positive integer and no two steps of
\* the plan share one.
C7_UniquePositiveIds ==
    /\ \A i \in DOMAIN current_plan : current_plan[i].step_id > 0
    /\ \A i, j \in DOMAIN current_plan :
          current_plan[i].step_id = current_plan[j].step_id => i = j

\* C8 (next-pending selection): the step the executor dispatches is the first
\* pending step in insertion order, nothing is dispatched exactly when no step
\* is pending, and no other step of the plan is touched.
C8_NextPending ==
    [][pc = "executor" =>
        LET sel == dispatch'.selected IN
        /\ sel = 0 <=> NoPending(current_plan)
        /\ sel # 0 =>
              /\ sel \in DOMAIN current_plan
              /\ current_plan[sel].status = "pending"
              /\ \A j \in 1..(sel - 1) : current_plan[j].status # "pending"
              /\ current_plan'[sel].status \in Terminal
        /\ Len(current_plan') = Len(current_plan)
        /\ \A j \in DOMAIN current_plan : j # sel => current_plan'[j] = current_plan[j]]_vars

\* C8 witness: the second step was selected behind a terminal first step while
\* a third one was pending
C8_Witness ==
    /\ pc = "observation"
    /\ dispatch.selected = 2
    /\ Len(current_plan) = 3
    /\ current_plan[1].status \in Terminal
    /\ current_plan[3].status = "pending"

\* C9 (as claimed): a dispatch that ended in InvalidTarget, PayloadTooLarge,
\* Timeout, SpawnFailure or an unsupported capability leaves a log entry with
\* its error set and the step failed.
C9_FailuresRecordedAsFailed ==
    (/\ pc = "observation"
     /\ dispatch.selected # 0
     /\ dispatch.outcome \in RunFailures \cup {"unsupported"})
    => /\ LastEntry.error # None
       /\ current_plan[dispatch.selected].status = "failed"

\* the capabilities the dispatch supports
Capabilities == {"file", "strings", "hexdump", "gdb", "run_binary"}

C11_TranslationFallback ==
    (/\ pc = "observation"
     /\ dispatch.selected # 0
     /\ current_plan[dispatch.selected].tool \in TranslatedTools
     /\ dispatch.outcome = "no translation")
    => /\ dispatch.handler_calls = 1
       /\ LastEntry.error = None

\* C12 (as claimed): for a valid executable target, a payload longer than
\* 4096 bytes (4097 bytes, say) ends in PayloadTooLarge with no child spawned,
\* and a payload of at most 4096 bytes is never rejected for its size.
C12_PayloadCap ==
    (/\ r_pc \notin {"idle", "validate"}
     /\ r_in.path = "/abs/target"
     /\ r_in.file = "executable"
     /\ r_in.stdin.present)
    => /\ r_in.stdin.bytes > StdinCap =>
             /\ r_child = "none"
             /\ r_pc = "returned" => r_result.kind = "PayloadTooLarge"
       /\ r_in.stdin.bytes <= StdinCap => r_result.kind # "PayloadTooLarge"

\* C13 (as claimed): once the adapter has written to the child, every payload
\* that is present was delivered as it is when it ends with a newline, and
\* followed by exactly one newline otherwise; the delivered text is a fixed
\* point of the normalisation.
C13_NewlineDiscipline ==
    (r_pc = "wait" /\ r_in.stdin.present)
    => /\ r_sent = (IF r_in.stdin.nl THEN r_in.stdin
                    ELSE [present |-> TRUE, len |-> r_in.stdin.len + 1,
                          bytes |-> r_in.stdin.bytes + 1, nl |-> TRUE])
       /\ newline_discipline(r_sent) = r_sent

\* C14 (timeout partial capture): a Timeout outcome carries all the output
\* the child has written, and the child was killed before the adapter
\* returned, so that it writes nothing afterwards.
C14_TimeoutPartialCapture ==
    (r_pc = "returned" /\ r_result.kind = "Timeout")
    => /\ r_result.output = r_out
       /\ r_result.text = "Error: Binary execution timed out"
       /\ r_child = "killed"

\* C14 witness: the adapter timed out on a child that had been sent input and
\* had written output
C14_Witness ==
    /\ r_pc = "returned"
    /\ r_result.kind = "Timeout"
    /\ r_result.output >= 1
    /\ r_sent.present
    /\ r_child = "killed"

\* C15 (target validation): a path that is not absolute, names no existing
\* file or names a file that is not executable makes the adapter return
\* InvalidTarget as text at the path check: no child is spawned and nothing
\* is written.
C15_TargetValidation ==
    (/\ r_pc # "idle"
     /\ \/ r_in.path # "/abs/target"
        \/ r_in.file \in {"missing", "directory", "not executable"})
    => /\ r_pc \in {"validate", "returned"}
       /\ r_pc = "returned" =>
             /\ r_result.kind = "InvalidTarget"
             /\ r_result.text \in {"Error: binary_path must be an absolute path",
                                   "Error: not an executable file"}
       /\ r_child = "none"
       /\ r_sent = NoStdin

\* C15 witness: an absolute path to a file without the execute permission was
\* rejected while a payload was waiting
C15_Witness ==
    /\ r_pc = "returned"
    /\ r_in.path = "/abs/target"
    /\ r_in.file = "not executable"
    /\ r_in.stdin.present
    /\ r_result.kind = "InvalidTarget"

\* C16 (loop edge): behind a Critique with satisfied false the node that runs
\* next is the executor, behind one with satisfied true nothing runs any
\* more, and the planner never runs again: no step leads back to it, and it
\* runs only while no other phase has run.
C16_LoopEdge ==
    [][/\ (pc = "route" /\ ~termination.satisfied) =>
              (pc' = "executor" /\ active' = {"executor"})
       /\ (pc = "route" /\ termination.satisfied) => (pc' = "END" /\ active' = {})
       /\ pc = "END" => (pc' = "exit 0" /\ active' = {})
       /\ pc' # "planning"
       /\ pc = "planning" =>
              (cycles = 0 /\ execution_log = <<>> /\ dispatch = NoDispatch
               /\ critique = NoCritique)]_vars

\* C16 witness: the back-edge was taken behind a Critique that was not satisfied
C16_Witness ==
    /\ pc = "executor"
    /\ cycles >= 1
    /\ critique.path # "none"
    /\ ~termination.satisfied
    /\ ~NoPending(current_plan)

\* C17 (phase ordering): at most one node is scheduled at any time and it is
\* the one that runs; the nodes follow the order planning, then executor,
\* observation, critic, and the conditional edge; every step of a run is the
\* step of exactly one of them, for a run started by main and for one
\* started by the worker of the TUI.
C17_PhaseOrdering ==
    [][/\ Cardinality(active) <= 1
       /\ Cardinality(active') <= 1
       /\ pc \in Nodes => active = {pc}
       /\ pc = "planning" => pc' \in {"executor", "crashed"}
       /\ pc = "executor" => pc' = "observation"
       /\ pc = "observation" => pc' \in {"critic", "crashed"}
       /\ pc = "critic" => pc' \in {"route", "crashed"}
       /\ pc = "route" => pc' \in {"executor", "END"}
       /\ pc \notin Nodes \cup {"route"} =>
              (active = {} /\ active' = {} /\ pc' \in {"exit 0", "exit 1"})
       /\ ~(planner_agent /\ executor_agent)
       /\ ~(planner_agent /\ observation_agent)
       /\ ~(planner_agent /\ critic_agent)
       /\ ~(observation_agent /\ executor_agent)
       /\ ~(executor_agent /\ critic_agent)
       /\ ~(observation_agent /\ critic_agent)
       /\ ~(should_continue /\ (planner_agent \/ executor_agent
                                 \/ observation_agent \/ critic_agent))]_vars

\* C17 witness: a run of the TUI worker is in its second cycle
C17_Witness ==
    /\ entry = "tui"
    /\ pc = "critic"
    /\ cycles = 1
    /\ Len(execution_log) >= 2

\* C18 (as claimed): the planner goes past its guard exactly when the plan
\* is empty or every step of it is completed or failed; with a pending step
\* it is a no-op that leaves the plan and the rest of the state as they are.
C18_PlanGuard ==
    [][pc = "planning" =>
        LET replan == \/ current_plan = <<>>
                      \/ \A i \in DOMAIN current_plan :
                            current_plan[i].status \in Terminal
        IN /\ replan <=> planned'.path # "noop"
           /\ ~replan =>
                 UNCHANGED <<current_plan, hypotheses, target, observations,
                             artifacts, execution_log, confidence, termination>>]_vars

\* C19 (plan fallback): when the planner's oracle call failed and there was no
\* plan, the plan is exactly one pending "Manual inspection" step with
\* step_id 1; and over a planner phase the hypotheses keep every entry they
\* had and gain at most one.
C19_PlanFallback ==
    [][pc = "planning" =>
        /\ (planned'.path = "fallback" /\ current_plan = <<>>) =>
              current_plan' = <<[step_id |-> 1, action |-> "Manual inspection",
                                 tool |-> "file", status |-> "pending",
                                 result_ref |-> NoRef]>>
        /\ Len(hypotheses') <= Len(hypotheses) + 1
        /\ SubSeq(hypotheses', 1, Len(hypotheses)) = hypotheses]_vars

\* C19 witness: the fallback gave an empty plan its manual step
C19_Witness ==
    /\ pc = "executor"
    /\ planned.path = "fallback"
    /\ Len(current_plan) = 1
    /\ current_plan[1].action = "Manual inspection"
    /\ execution_log = <<>>

\* C20 (as claimed): once the planner has returned, the plan holds at least
\* one step, whatever list the oracle's response carried.
C20_PlanNeverEmpty ==
    (pc \notin {"planning", "crashed"}) => current_plan # <<>>

\* C21 (Execute no-op): an executor phase that finds no pending step selects
\* nothing, calls no tool and no oracle, appends no log entry and leaves the
\* plan and the rest of the AgentState as they are.
C21_ExecuteNoop ==
    [][(pc = "executor" /\ NoPending(current_plan)) =>
        /\ UNCHANGED <<execution_log, current_plan, target, hypotheses,
                       observations, artifacts, confidence, termination>>
        /\ dispatch'.selected = 0
        /\ dispatch'.handler_calls = 0
        /\ dispatch'.oracle_calls = 0
        /\ pc' = "observation"]_vars

\* C21 witness: the executor ran on a plan whose steps were all terminal
C21_Witness ==
    /\ pc = "observation"
    /\ cycles >= 1
    /\ current_plan # <<>>
    /\ NoPending(current_plan)
    /\ dispatch.selected = 0
    /\ Len(execution_log) = dispatch.log_before

\* C22 (Observe skip): an observation phase that finds the log empty, or its
\* last entry in error, calls no oracle and leaves observations, artifacts
\* and TargetInfo as they are.
C22_ObserveSkip ==
    [][(pc = "observation" /\ (execution_log = <<>> \/ LastEntry.error # None)) =>
        /\ observed'.path = "skip"
        /\ observed'.oracle_calls = 0
        /\ UNCHANGED <<observations, artifacts, target>>
        /\ pc' = "critic"]_vars

\* C22 witness: an entry in error was skipped where no oracle could have
\* been constructed
C22_Witness ==
    /\ pc = "critic"
    /\ ~llm_ok
    /\ observed.path = "skip"
    /\ execution_log # <<>>
    /\ LastEntry.error # None

\* C23 (Observe fallback): when the oracle call of the observation phase
\* failed, exactly one fallback note is appended to the notes, nothing else
\* of the state changes, and the critic runs next.
C23_ObserveFallback ==
    [][(pc = "observation" /\ observed'.path = "fallback") =>
        /\ artifacts'.notes = Append(artifacts.notes, "fallback")
        /\ artifacts'.decoded_strings = artifacts.decoded_strings
        /\ artifacts'.extracted_keys = artifacts.extracted_keys
        /\ artifacts'.decrypted_payloads = artifacts.decrypted_payloads
        /\ UNCHANGED <<observations, target, current_plan, execution_log,
                       hypotheses, confidence, termination>>
        /\ pc' = "critic"]_vars

\* C23 witness: the fallback note is the only thing the phase left
C23_Witness ==
    /\ pc = "critic"
    /\ observed.path = "fallback"
    /\ observed.entry = Len(execution_log)
    /\ artifacts.notes = <<"fallback">>
    /\ observations.strings = <<>>

\* C24 (as claimed): an observation phase writes exactly the TargetInfo fields
\* for which the oracle reported a value that is not null, every other field
\* keeps its value, a field that holds a value is never left empty, and
\* binary_path does not change.
C24_TargetEnrichment ==
    [][(pc = "observation" /\ observed'.path = "oracle") =>
        LET u == observed'.updates IN
        /\ \A key \in {"binary_type", "arch", "os", "stripped"} :
              /\ u[key] \in {"absent", "null"} => target'[key] = target[key]
              /\ u[key] \notin {"absent", "null"} => target'[key] = u[key]
              /\ target[key] \notin {None, "", "Unknown"} =>
                    target'[key] \notin {None, ""}
        /\ target'.binary_path = target.binary_path]_vars


\* C25 (as claimed): every critic phase that returns, through the oracle or
\* through its fallback, leaves a Confidence made of this cycle's assessment
\* alone: understanding_level and unanswered_questions are the assessed values
\* (0.0 and the empty list where nothing was assessed), never the previous ones.
C25_ConfidenceOverwritten ==
    [][(pc = "critic" /\ pc' = "route") =>
        LET a == critique'.assessment IN
        /\ confidence'.understanding_level = (IF a.has_level THEN a.level ELSE 0)
        /\ confidence'.unanswered_questions =
              (IF a.has_questions THEN a.questions ELSE <<>>)]_vars


\* C26 (critic appends only): a critic phase leaves every step the plan held
\* in its place with its fields and status, what it adds are pending steps at
\* the end, and it adds them only when it sets satisfied to false: with
\* satisfied true the plan is the plan from before the phase.
C26_CriticAppendsOnly ==
    [][(pc = "critic") =>
        /\ Len(current_plan') >= Len(current_plan)
        /\ \A i \in DOMAIN current_plan : current_plan'[i] = current_plan[i]
        /\ \A i \in (Len(current_plan) + 1)..Len(current_plan') :
              current_plan'[i].status = "pending"
        /\ current_plan' # current_plan => ~termination'.satisfied
        /\ termination'.satisfied => current_plan' = current_plan]_vars

\* C26 witness: the critic answered unsatisfied with new steps and the plan
\* grew by a pending step behind a step that is still completed
C26_Witness ==
    /\ pc = "route"
    /\ critique.path = "oracle"
    /\ critique.new_steps # <<>>
    /\ ~termination.satisfied
    /\ Len(current_plan) >= 2
    /\ current_plan[1].status = "completed"
    /\ current_plan[Len(current_plan)].status = "pending"
    /\ current_plan[Len(current_plan)].action = "oracle"


\* C27 (step lifecycle): in every phase a step stays in the plan, and its
\* status changes only from pending to completed or from pending to failed,
\* so a completed or failed step keeps its status for the rest of the run;
\* the step an executor phase dispatches was pending when it was selected.
C27_StepLifecycle ==
    [][/\ \A i \in DOMAIN current_plan :
             /\ i \in DOMAIN current_plan'
             /\ current_plan'[i].step_id = current_plan[i].step_id
             /\ current_plan'[i].status # current_plan[i].status =>
                   /\ current_plan[i].status = "pending"
                   /\ current_plan'[i].status \in {"completed", "failed"}
       /\ (pc = "executor" /\ dispatch'.selected # 0) =>
             /\ current_plan[dispatch'.selected].status = "pending"
             /\ current_plan'[dispatch'.selected].status \in {"completed", "failed"}]_vars

\* C27 witness: in the second cycle a step was dispatched behind a failed one
C27_Witness ==
    /\ pc = "observation"
    /\ cycles >= 1
    /\ dispatch.selected = 2
    /\ current_plan[1].status = "failed"
    /\ current_plan[2].status = "completed"
    /\ Len(execution_log) = 2


\* C28 (as claimed): no failure inside the cycle aborts the run: the run is
\* never left crashed, and a planner or observation phase that could not
\* construct its oracle took its fallback instead.
C28_NoAbortInCycle ==
    /\ pc # "crashed"
    /\ planned.path # "crashed"
    /\ observed.path # "crashed"
    /\ (~llm_ok /\ planned.path \notin {"none", "noop"}) => planned.path = "fallback"


\* C29 (as claimed): every way in which the loop of a run of main stops leads
\* to the report: when main is through, the summary was printed, and its
\* Status line says SUCCESS exactly when termination.satisfied is true and
\* IN PROGRESS otherwise.
C29_ReportAlways ==
    (pc \in {"exit 0", "exit 1"}) =>
        /\ report # "none"
        /\ termination.satisfied => report = "SUCCESS"
        /\ ~termination.satisfied => report = "IN PROGRESS"


\* the fallback scenario: main built the state, the planner's oracle call
\* failed, no critic has been answered by its oracle, and the file tool of the
\* first step, once it ran, reported no error
FallbackScenario ==
    /\ entry = "main"
    /\ planned.path = "fallback"
    /\ critique.path \in {"none", "fallback"}
    /\ cycles = 0
    /\ execution_log # <<>> => execution_log[1].error = None

\* C30 (end-to-end fallback scenario): in the fallback scenario the plan is
\* the one pending file step the planner seeded; the executor completes it
\* and appends one log entry; the critic's fallback sets satisfied, so the
\* run takes no second cycle, ends, and the report says SUCCESS.
C30_FallbackScenario ==
    FallbackScenario =>
        /\ Len(current_plan) = 1
        /\ current_plan[1].tool = "file"
        /\ current_plan[1].step_id = 1
        /\ pc = "executor" =>
              (current_plan[1].status = "pending" /\ execution_log = <<>>)
        /\ pc \in {"observation", "critic", "route", "END", "exit 0"} =>
              /\ current_plan[1].status = "completed"
              /\ Len(execution_log) = 1
              /\ execution_log[1].step_id = 1
        /\ critique.path = "fallback" =>
              /\ termination.satisfied
              /\ pc \in {"route", "END", "exit 0"}
        /\ pc = "exit 0" => report = "SUCCESS"
        /\ pc # "exit 1"

\* C30 witness: the scenario ran to its end in one cycle and reported SUCCESS
C30_Witness ==
    /\ FallbackScenario
    /\ pc = "exit 0"
    /\ critique.path = "fallback"
    /\ report = "SUCCESS"
    /\ Len(execution_log) = 1
    /\ current_plan[1].status = "completed"


\* C31 (as claimed): when --path or --prompt is missing, the command line
\* with no argument at all included, or the path names no file, main ends
\* with a status that is not zero and no phase of the loop has run.
C31_EntryContract ==
    (/\ pc # "main"
     /\ \/ argv.path \in {"absent", "", "missing"}
        \/ argv.prompt \in {"absent", ""})
    => /\ pc \in {"exit 1", "exit 2"}
       /\ active = {}
       /\ planned = NoPlanned
       /\ dispatch = NoDispatch
       /\ observed = NoObserved
       /\ critique = NoCritique


\* old is a prefix of new
IsPrefix(old, new) ==
    /\ Len(old) <= Len(new)
    /\ \A i \in DOMAIN old : new[i] = old[i]

\* old is a prefix of new, up to the status and the result_ref of a step
IsPlanPrefix(old, new) ==
    /\ Len(old) <= Len(new)
    /\ \A i \in DOMAIN old :
          /\ new[i].step_id = old[i].step_id
          /\ new[i].action = old[i].action
          /\ new[i].tool = old[i].tool

\* C32 (as claimed): in every transition of every phase the log, the plan,
\* the three observation sequences and the four artifact lists have their
\* value from before the phase as a prefix; an entry that was there changes
\* only in the status and the result_ref of a plan step.
C32_AppendOnly ==
    [][/\ IsPrefix(execution_log, execution_log')
       /\ IsPlanPrefix(current_plan, current_plan')
       /\ IsPrefix(observations.strings, observations'.strings)
       /\ IsPrefix(observations.code, observations'.code)
       /\ IsPrefix(observations.runtime, observations'.runtime)
       /\ IsPrefix(artifacts.decoded_strings, artifacts'.decoded_strings)
       /\ IsPrefix(artifacts.extracted_keys, artifacts'.extracted_keys)
       /\ IsPrefix(artifacts.decrypted_payloads, artifacts'.decrypted_payloads)
       /\ IsPrefix(artifacts.notes, artifacts'.notes)]_vars


\* C33 (as claimed): every completed or failed step has a result_ref that
\* names, by position, an entry of the execution log with the step's
\* step_id, a step failed for want of a binary path included; every pending
\* step has no result_ref.
C33_ResultRefIntegrity ==
    \A i \in DOMAIN current_plan :
        IF current_plan[i].status = "pending"
        THEN current_plan[i].result_ref = NoRef
        ELSE /\ current_plan[i].result_ref # NoRef
             /\ \E k \in DOMAIN execution_log :
                   /\ current_plan[i].result_ref = LogRef(k - 1)
                   /\ execution_log[k].step_id = current_plan[i].step_id


\* the steps of a plan that are completed or failed
TerminalSteps(plan) == {i \in DOMAIN plan : plan[i].status \in {"completed", "failed"}}

\* C34 (no duplicate log entries): an executor phase that dispatches a step
\* dispatches a pending one, appends exactly one entry, the step's, and makes
\* that step and no other terminal in the same phase; an executor phase
\* without a pending step and every other phase append nothing and make no
\* step terminal; so the log holds one entry for each terminal step.
C34_NoDuplicateEntries ==
    [][/\ IF pc = "executor" /\ dispatch'.selected # 0
          THEN LET i == dispatch'.selected IN
               /\ current_plan[i].status = "pending"
               /\ TerminalSteps(current_plan') = TerminalSteps(current_plan) \cup {i}
               /\ Len(execution_log') = Len(execution_log) + 1
               /\ \A k \in DOMAIN execution_log : execution_log'[k] = execution_log[k]
               /\ execution_log'[Len(execution_log')].step_id = current_plan[i].step_id
          ELSE /\ execution_log' = execution_log
               /\ TerminalSteps(current_plan') = TerminalSteps(current_plan)
       /\ Len(execution_log') = Cardinality(TerminalSteps(current_plan'))]_vars

\* C34 witness: two steps were dispatched, one per cycle, and the log holds
\* one entry for each
C34_Witness ==
    /\ pc = "critic"
    /\ cycles = 1
    /\ Len(execution_log) = 2
    /\ dispatch.selected = 2
    /\ execution_log[1].step_id = current_plan[1].step_id
    /\ execution_log[2].step_id = current_plan[2].step_id
    /\ execution_log[1].step_id # execution_log[2].step_id


\* C35 (log count): in every state of a run started from main's initial
\* state the execution log has as many entries as the plan has completed or
\* failed steps.
C35_LogCount ==
    entry = "main" =>
        Len(execution_log) = Cardinality(TerminalSteps(current_plan))

\* C35 witness: a run of main with two entries, a failed and a completed
\* step, and a step still pending
C35_Witness ==
    /\ entry = "main"
    /\ Len(execution_log) = 2
    /\ Len(current_plan) = 3
    /\ current_plan[1].status = "failed"
    /\ current_plan[2].status = "completed"
    /\ current_plan[3].status = "pending"


\* C36 (as claimed): an observation phase that submits a log entry to the
\* oracle submits one that no earlier cycle submitted: the entry is not the
\* one the observation before it submitted, and it was appended by this
\* cycle's executor, which therefore was not a no-op.
C36_ObservedOnce ==
    [][(pc = "observation" /\ observed'.entry # 0) =>
        /\ observed'.entry # observed.entry
        /\ dispatch.selected # 0
        /\ observed'.entry = dispatch.log_before + 1]_vars


\* C37 (terminal prefix): in every state of a run started from main's
\* initial state no completed or failed step stands behind a pending one,
\* and every phase makes at most one step terminal, which only the executor
\* does, once in a cycle.
C37_TerminalPrefix ==
    [][entry = "main" =>
        /\ \A i, j \in DOMAIN current_plan' :
              (i < j /\ current_plan'[i].status = "pending") =>
                   current_plan'[j].status = "pending"
        /\ Cardinality(TerminalSteps(current_plan') \ TerminalSteps(current_plan)) <= 1
        /\ pc # "executor" => TerminalSteps(current_plan') = TerminalSteps(current_plan)]_vars

\* C37 witness: the third cycle's step is still pending behind two terminal
\* steps, the second of them made terminal in the second cycle
C37_Witness ==
    /\ entry = "main"
    /\ pc = "route"
    /\ cycles = 1
    /\ Len(current_plan) = 3
    /\ current_plan[1].status = "completed"
    /\ current_plan[2].status = "failed"
    /\ current_plan[3].status = "pending"


\* C38 (as claimed): the text child.send writes never has more than 4096
\* characters, whatever accepted payload it was made from.
C38_WrittenWithinCap ==
    r_sent.present => r_sent.len <= StdinCap

\* C39 (as claimed): when the adapter has returned after it spawned a child,
\* the child was closed or forcibly terminated, whatever the return path:
\* completion, timeout, or an error raised while sending or waiting.
C39_NoChildOutlives ==
    r_pc = "returned" => r_child \in {"none", "closed", "killed"}


\* C40 (as claimed): a critic phase that ends in its except branch, because
\* the oracle call failed or because the response could not be processed to
\* its end (an entry of new_steps that is no dict), leaves the plan and
\* Confidence as they were before the phase and sets Termination by the
\* fallback rule on that plan.
C40_FallbackAllOrNothing ==
    [][(pc = "critic" /\ critique'.path \in {"fallback", "raised"}) =>
        /\ current_plan' = current_plan
        /\ confidence' = confidence
        /\ termination' = Fallback(current_plan)]_vars

====
